---- MODULE Spec2Model ----
(***************************************************************************)
(* A machine-level model of stack-master: the four naked assembly routines *)
(* of src/asm.rs (dock, restart, suspend, resume), one action per          *)
(* instruction, and the Rust adapters of src/lib.rs with the closures of   *)
(* src/tests.rs as the code that runs on top of them.                      *)
(*                                                                         *)
(* The machine is a 32-bit x86 in miniature: eight registers, a direction  *)
(* flag, a byte-addressed stack that grows towards lower addresses, and a  *)
(* heap of snapshot buffers and boxed closures.  Code addresses (return    *)
(* addresses, function pointers) are numbers kept in registers and in      *)
(* stack memory like every other word, so a `ret` goes wherever the word   *)
(* at the stack pointer says.                                              *)
(***************************************************************************)
EXTENDS Integers, Sequences, FiniteSets, TLC

VARIABLES
    pc,           \* label of the instruction about to execute
    reg,          \* the registers: eax ecx edx ebx esi edi ebp esp, and df
    mem,          \* the machine stack, one byte per address
    STACK_START,  \* asm.rs:9, the process-wide dock pointer cell (0 = null)
    heap,         \* snapshot buffers (Box<[u8]>), in allocation order
    boxes,        \* boxed closures (Box<F>), in allocation order
    results,      \* boxed results (Box<T>), in allocation order
    queue,        \* tests.rs:33, the mpsc channel of saved stacks
    held,         \* the Stack value owned by the running Rust frame
    out,          \* what Stack::dock handed back to its caller
    trace,        \* the println! events of tests.rs
    hist,         \* history of the run, read only by the properties
    parked        \* the context of the thread that is not running (tid 0: none)

machine == <<pc, reg, mem, STACK_START>>
rust    == <<heap, boxes, results, queue, held, out, trace>>
vars    == <<pc, reg, mem, STACK_START, heap, boxes, results, queue, held, out, trace, hist,
             parked>>

-----------------------------------------------------------------------------
(* Bounds of the model *)

StackWords == 72     \* size of the modelled stack region, in words
CallerWords == 3     \* words of the caller's frame above dock's arguments
MaxDepth == 1        \* nested user calls below a closure body
MaxSwitches == 1     \* preemptions of a running thread, in the two-thread runs
MaxPad == 3          \* words of locals the outer closure holds when it suspends
MaxOps == 3          \* calls, suspends, restarts and seeds of one run of the generic program

(* Program constants *)

W == 4               \* the word size of the 32-bit target

-----------------------------------------------------------------------------
(* Address space *)

StackLo  == 16 * 4096
StackHi  == StackLo + W * StackWords
HeapBase == 32 * 4096
BufStride == 128 * W
BoxBase  == 48 * 4096
ResBase  == 56 * 4096
CodeBase == 64 * 4096
CodeStride == 4 * W

StackAddrs == StackLo .. (StackHi - 1)

RegNames == {"eax", "ecx", "edx", "ebx", "esi", "edi", "ebp", "esp", "df"}
CalleeSaved == {"ebp", "ebx", "esi", "edi"}

(* Every label that is ever held as a value: a function pointer or a       *)
(* return address.                                                         *)
Labels == <<
    "Stack_dock_ret", "fn_entry", "fn_entry_ret", "boxed_entry", "boxed_entry_ret",
    "dock_L49", "suspend_L133", "resume_L195",
    "Stack_suspend_ret", "suspend_trampoline", "suspend_trampoline_ret",
    "land_drop_coroutine_trampoline", "Stack_resume_ret", "Stack_restart_ret",
    "G_enter", "G_body", "G_after_resume", "G_after_send", "G_after_drop",
    "G_after_abort", "G_unreachable",
    "cb_resume", "cb_send_pump", "cb_drop_restart", "cb_abort",
    "unit_body", "pump",
    "T3_root", "coA_0", "coA_1", "coA_2", "coB_0", "coB_1", "coB_2",
    "cbA_1", "cbA_2", "cbB_1", "cbB_2",
    "once_B", "once_D",
    "N_outer", "N_inner", "N_docked", "N_after"
>>

LabelSet == {Labels[i] : i \in 1..Len(Labels)}

Addr(l) == CodeBase + CodeStride * (CHOOSE i \in 1..Len(Labels) : Labels[i] = l)

IsCode(n) == /\ n > CodeBase
             /\ n <= CodeBase + CodeStride * Len(Labels)
             /\ (n - CodeBase) % CodeStride = 0

(* Where a jump to the number n lands: a wild jump crashes. *)
LabelAt(n) == IF IsCode(n) THEN Labels[(n - CodeBase) \div CodeStride] ELSE "crash"

-----------------------------------------------------------------------------
(* Memory: little-endian 32-bit words over bytes *)

Rd8(m, a) == IF a \in DOMAIN m THEN m[a] ELSE 0

\* a word is kept as the two's-complement value of its 32 bits
Rd32(m, a) == Rd8(m, a) + 256 * Rd8(m, a + 1) + 65536 * Rd8(m, a + 2)
              + 16777216 * (IF Rd8(m, a + 3) >= 128 THEN Rd8(m, a + 3) - 256
                            ELSE Rd8(m, a + 3))

ByteOf(w, k) == CASE k = 0 -> w % 256
                  [] k = 1 -> (w \div 256) % 256
                  [] k = 2 -> (w \div 65536) % 256
                  [] OTHER -> (w \div 16777216) % 256

Wr32(m, a, w) == [x \in DOMAIN m |->
                    IF x >= a /\ x < a + W THEN ByteOf(w, x - a) ELSE m[x]]

(* The bytes of m at addresses lo .. hi-1, lowest first. *)
Bytes(m, lo, hi) == [i \in 1 .. (IF hi > lo THEN hi - lo ELSE 0) |-> Rd8(m, lo + i - 1)]

(* A stack pointer the model can follow: inside the region, room below. *)
SpOk(sp) == sp >= StackLo /\ sp <= StackHi

-----------------------------------------------------------------------------
(* Instruction forms.  Every instruction of asm.rs is one action built     *)
(* from one of these; a stack pointer that leaves the modelled region      *)
(* crashes the machine instead of stepping.                                *)

Exec(l, next, r2, m2) ==
    /\ pc = l
    /\ IF SpOk(r2["esp"]) /\ next # "crash"
       THEN pc' = next /\ reg' = r2 /\ mem' = m2
       ELSE pc' = "crash" /\ UNCHANGED <<reg, mem>>

\* an instruction that touches registers and stack only
Ins(next, r2, m2) ==
    /\ IF SpOk(r2["esp"]) /\ next # "crash"
       THEN pc' = next /\ reg' = r2 /\ mem' = m2
       ELSE pc' = "crash" /\ UNCHANGED <<reg, mem>>
    /\ UNCHANGED <<STACK_START, parked, rust, hist>>

\* pop r
IPop(next, r) ==
    Ins(next, [reg EXCEPT ![r] = Rd32(mem, reg["esp"]), !["esp"] = reg["esp"] + W], mem)

\* push r
IPush(next, r) ==
    Ins(next, [reg EXCEPT !["esp"] = @ - W], Wr32(mem, reg["esp"] - W, reg[r]))

\* add esp, 4
IDrop(next) ==
    Ins(next, [reg EXCEPT !["esp"] = @ + W], mem)

\* mov d, s
IMov(next, d, s) ==
    Ins(next, [reg EXCEPT ![d] = reg[s]], mem)

\* call r: push the address of the next instruction, jump to the register
ICall(retl, r) ==
    Ins(LabelAt(reg[r]), [reg EXCEPT !["esp"] = @ - W],
        Wr32(mem, reg["esp"] - W, Addr(retl)))

\* jmp r
IJmp(r) ==
    Ins(LabelAt(reg[r]), reg, mem)

\* ret
IRet ==
    Ins(LabelAt(Rd32(mem, reg["esp"])), [reg EXCEPT !["esp"] = @ + W], mem)

-----------------------------------------------------------------------------
(* asm::dock, src/asm.rs:26-56 *)

dock_L31 == pc = "dock_L31" /\ IPop("dock_L32", "eax")     \* pop the return address
dock_L32 == pc = "dock_L32" /\ IPop("dock_L33", "edx")     \* pop the function f
dock_L33 == pc = "dock_L33" /\ IPop("dock_L35", "ecx")     \* pop the argument a
dock_L35 == pc = "dock_L35" /\ IPush("dock_L36", "eax")    \* push the return address back
dock_L36 == pc = "dock_L36" /\ IPush("dock_L37", "ebp")
\* a slip in the save order: esi pushed in ebx's slot
dock_L37_esi == pc = "dock_L37" /\ IPush("dock_L38", "esi")
dock_L37 == pc = "dock_L37" /\ IPush("dock_L38", "ebx")
dock_L38 == pc = "dock_L38" /\ IPush("dock_L39", "esi")
dock_L39 == pc = "dock_L39" /\ IPush("dock_L41", "edi")
dock_L41 == pc = "dock_L41" /\ IPush("dock_L44", "ecx")    \* push the argument a for f

\* the dock recorded as the comment at asm.rs:43 words it: esp + 4
dock_L44_plus ==
    /\ pc = "dock_L44"
    /\ Ins("dock_L45", [reg EXCEPT !["eax"] = reg["esp"] + W], mem)

\* lea eax, [esp-4]
dock_L44 ==
    /\ pc = "dock_L44"
    /\ Ins("dock_L45", [reg EXCEPT !["eax"] = reg["esp"] - W], mem)

\* mov [STACK_START], eax
dock_L45 ==
    /\ Exec("dock_L45", "dock_L47", reg, mem)
    /\ STACK_START' = reg["eax"]
    /\ UNCHANGED <<parked, rust, hist>>

dock_L47 == pc = "dock_L47" /\ ICall("dock_L49", "edx")    \* call f
dock_L49 == pc = "dock_L49" /\ IPop("dock_L50", "edi")
dock_L50 == pc = "dock_L50" /\ IPop("dock_L51", "esi")
dock_L51 == pc = "dock_L51" /\ IPop("dock_L52", "ebx")
dock_L52 == pc = "dock_L52" /\ IPop("dock_L53", "ebp")
\* a dock that clears its cell when it returns
dock_L53_clear ==
    /\ Exec("dock_L53", LabelAt(Rd32(mem, reg["esp"])), [reg EXCEPT !["esp"] = @ + W], mem)
    /\ STACK_START' = 0
    /\ UNCHANGED <<parked, rust, hist>>

dock_L53 == pc = "dock_L53" /\ IRet

dock ==
    \/ dock_L31 \/ dock_L32 \/ dock_L33 \/ dock_L35 \/ dock_L36 \/ dock_L37
    \/ dock_L38 \/ dock_L39 \/ dock_L41 \/ dock_L44 \/ dock_L45 \/ dock_L47
    \/ dock_L49 \/ dock_L50 \/ dock_L51 \/ dock_L52 \/ dock_L53

-----------------------------------------------------------------------------
(* asm::restart, src/asm.rs:75-88 *)

restart_L80 == pc = "restart_L80" /\ IDrop("restart_L81")           \* pop the return address
restart_L81 == pc = "restart_L81" /\ IPop("restart_L82", "edx")     \* pop the function f
restart_L82 == pc = "restart_L82" /\ IPop("restart_L83", "ecx")     \* pop the argument a

\* a slip: the stack reset one word past the dock
restart_L83_over ==
    /\ pc = "restart_L83"
    /\ Ins("restart_L84", [reg EXCEPT !["esp"] = STACK_START + W], mem)

\* a slip: the stack reset one word short of the dock
restart_L83_short ==
    /\ pc = "restart_L83"
    /\ Ins("restart_L84", [reg EXCEPT !["esp"] = STACK_START - W], mem)

\* mov esp, [STACK_START]
restart_L83 ==
    /\ pc = "restart_L83"
    /\ Ins("restart_L84", [reg EXCEPT !["esp"] = STACK_START], mem)

\* a slip: the argument stored one slot too high
restart_L84_far ==
    /\ pc = "restart_L84"
    /\ Ins("restart_L85", reg, Wr32(mem, reg["esp"] + 2 * W, reg["ecx"]))

\* mov [esp+4], ecx
restart_L84 ==
    /\ pc = "restart_L84"
    /\ Ins("restart_L85", reg, Wr32(mem, reg["esp"] + W, reg["ecx"]))

restart_L85 == pc = "restart_L85" /\ IJmp("edx")                    \* jmp f (tail call)

restart ==
    \/ restart_L80 \/ restart_L81 \/ restart_L82 \/ restart_L83 \/ restart_L84
    \/ restart_L85

-----------------------------------------------------------------------------
(* asm::suspend, src/asm.rs:106-141 *)

suspend_L112 == pc = "suspend_L112" /\ IPop("suspend_L113", "eax")  \* pop the return address
suspend_L113 == pc = "suspend_L113" /\ IPop("suspend_L114", "edx")  \* pop the function
suspend_L114 == pc = "suspend_L114" /\ IPop("suspend_L116", "ecx")  \* pop the argument
suspend_L116 == pc = "suspend_L116" /\ IPush("suspend_L117", "eax") \* the return address
suspend_L117 == pc = "suspend_L117" /\ IPush("suspend_L118", "ebp")
suspend_L118 == pc = "suspend_L118" /\ IPush("suspend_L119", "ebx")
suspend_L119 == pc = "suspend_L119" /\ IPush("suspend_L120", "esi")
\* a slip: esi pushed a second time, edi not saved
suspend_L120_esi == pc = "suspend_L120" /\ IPush("suspend_L122", "esi")
suspend_L120 == pc = "suspend_L120" /\ IPush("suspend_L122", "edi")
suspend_L122 == pc = "suspend_L122" /\ IMov("suspend_L124", "esi", "esp")

\* the dock pointer kept per thread, as the note at asm.rs:6-8 proposes:
\* each thread reads the address its own dock recorded
suspend_L124_tls ==
    /\ pc = "suspend_L124"
    /\ Ins("suspend_L125",
           [reg EXCEPT !["edi"] = IF parked.tid = 2 THEN StackHi - W * (CallerWords + 7)
                                  ELSE STACK_START], mem)

\* mov edi, [STACK_START]
suspend_L124 ==
    /\ pc = "suspend_L124"
    /\ Ins("suspend_L125", [reg EXCEPT !["edi"] = STACK_START], mem)

\* a slip: the length measured to the last byte under the dock, not past it
suspend_L125_last ==
    /\ pc = "suspend_L125"
    /\ Ins("suspend_L127", [reg EXCEPT !["edi"] = @ - reg["esp"] - 1], mem)

\* sub edi, esp
suspend_L125 ==
    /\ pc = "suspend_L125"
    /\ Ins("suspend_L127", [reg EXCEPT !["edi"] = @ - reg["esp"]], mem)

suspend_L127 == pc = "suspend_L127" /\ IPush("suspend_L128", "ecx") \* 3rd argument of f
suspend_L128 == pc = "suspend_L128" /\ IPush("suspend_L129", "edi") \* 2nd argument of f
suspend_L129 == pc = "suspend_L129" /\ IPush("suspend_L130", "esi") \* 1st argument of f
suspend_L130 == pc = "suspend_L130" /\ ICall("suspend_L133", "edx") \* call f
\* a slip: the saved edi discarded instead of restored
suspend_L133_drop == pc = "suspend_L133" /\ IDrop("suspend_L134")
suspend_L133 == pc = "suspend_L133" /\ IPop("suspend_L134", "edi")
suspend_L134 == pc = "suspend_L134" /\ IPop("suspend_L135", "esi")
suspend_L135 == pc = "suspend_L135" /\ IPop("suspend_L136", "ebx")
suspend_L136 == pc = "suspend_L136" /\ IPop("suspend_L138", "ebp")
suspend_L138 == pc = "suspend_L138" /\ IRet

suspend ==
    \/ suspend_L112 \/ suspend_L113 \/ suspend_L114 \/ suspend_L116 \/ suspend_L117
    \/ suspend_L118 \/ suspend_L119 \/ suspend_L120 \/ suspend_L122 \/ suspend_L124
    \/ suspend_L125 \/ suspend_L127 \/ suspend_L128 \/ suspend_L129 \/ suspend_L130
    \/ suspend_L133 \/ suspend_L134 \/ suspend_L135 \/ suspend_L136 \/ suspend_L138

-----------------------------------------------------------------------------
(* The heap of snapshot buffers.  Buffer i lives at HeapBase + BufStride*i. *)

BufPtr(i) == HeapBase + BufStride * i
BufOf(p)  == IF p >= HeapBase /\ p < BoxBase THEN (p - HeapBase) \div BufStride ELSE 0
BufOff(p) == (p - HeapBase) % BufStride
IsBuf(h, p) == BufOf(p) \in 1..Len(h) /\ BufOff(p) = 0
BufLive(h, p) == IsBuf(h, p) /\ h[BufOf(p)].st = "live"

(* What a byte load from address p can yield.  A load from the stack or    *)
(* from a live buffer yields the byte stored there; a load from a released *)
(* buffer or from outside every allocation is undefined: it yields the     *)
(* stale byte or whatever the allocator left (0).                          *)
Load8(h, m, p) ==
    IF p \in DOMAIN m THEN m[p]
    ELSE LET i == BufOf(p) IN
         IF i \in 1..Len(h) /\ BufOff(p) < Len(h[i].bytes)
         THEN h[i].bytes[BufOff(p) + 1]
         ELSE 0

Defined8(h, m, p) ==
    \/ p \in DOMAIN m
    \/ LET i == BufOf(p) IN
         i \in 1..Len(h) /\ h[i].st = "live" /\ BufOff(p) < Len(h[i].bytes)

-----------------------------------------------------------------------------
(* asm::resume, src/asm.rs:163-203 *)

resume_L171 == pc = "resume_L171" /\ IDrop("resume_L172")           \* pop the return address
resume_L172 == pc = "resume_L172" /\ IPop("resume_L173", "esi")     \* pop the stack_data
resume_L173 == pc = "resume_L173" /\ IPop("resume_L174", "ebx")     \* pop the stack_len
resume_L174 == pc = "resume_L174" /\ IPop("resume_L175", "edx")     \* pop the argument
resume_L175 == pc = "resume_L175" /\ IPop("resume_L178", "eax")     \* pop the function
resume_L178 == pc = "resume_L178" /\ IMov("resume_L180", "ecx", "ebx")

\* mov edi, [STACK_START]
resume_L180 ==
    /\ pc = "resume_L180"
    /\ Ins("resume_L181", [reg EXCEPT !["edi"] = STACK_START], mem)

\* a slip: the destination lowered by one word less than the length
resume_L181_high ==
    /\ pc = "resume_L181"
    /\ Ins("resume_L182", [reg EXCEPT !["edi"] = @ - reg["ebx"] + W], mem)

\* a slip: the destination not lowered by the length
resume_L181_nosub ==
    /\ pc = "resume_L181"
    /\ Ins("resume_L182", reg, mem)

\* sub edi, ebx
resume_L181 ==
    /\ pc = "resume_L181"
    /\ Ins("resume_L182", [reg EXCEPT !["edi"] = @ - reg["ebx"]], mem)

\* a slip: the landing address also stored in the dock cell
resume_L182_store ==
    /\ Exec("resume_L182", "resume_L183", [reg EXCEPT !["esp"] = reg["edi"]], mem)
    /\ STACK_START' = reg["edi"]
    /\ UNCHANGED <<parked, rust, hist>>

resume_L182 == pc = "resume_L182" /\ IMov("resume_L183", "esp", "edi")

\* a slip: the direction flag set instead of cleared
resume_L183_std ==
    /\ pc = "resume_L183"
    /\ Ins("resume_L184", [reg EXCEPT !["df"] = 1], mem)

\* cld
resume_L183 ==
    /\ pc = "resume_L183"
    /\ Ins("resume_L184", [reg EXCEPT !["df"] = 0], mem)

(* rep movsb: ecx times, copy the byte at [esi] to [edi] and step both by  *)
(* one, upwards when the direction flag is clear and downwards when set.   *)
MovsbMem(h, m, r, junk) ==
    LET n   == r["ecx"]
        dir == IF r["df"] = 0 THEN 1 ELSE -1
        K(x) == (x - r["edi"]) * dir
    IN [x \in DOMAIN m |->
          IF K(x) >= 0 /\ K(x) < n
          THEN IF Defined8(h, m, r["esi"] + dir * K(x))
               THEN Load8(h, m, r["esi"] + dir * K(x))
               ELSE junk[Load8(h, m, r["esi"] + dir * K(x))]
          ELSE m[x]]

MovsbReg(r) ==
    LET dir == IF r["df"] = 0 THEN 1 ELSE -1
    IN [r EXCEPT !["esi"] = @ + dir * r["ecx"],
                 !["edi"] = @ + dir * r["ecx"],
                 !["ecx"] = 0]

(* The images an undefined byte load can take: the stale byte, or zero.    *)
(* A copy whose every source byte is defined has one outcome.              *)
Stale == [b \in 0..255 |-> b]
Zeroed == [b \in 0..255 |-> 0]

Junk(h, m, r) ==
    IF \A k \in 0 .. (r["ecx"] - 1) :
          Defined8(h, m, r["esi"] + (IF r["df"] = 0 THEN k ELSE -k))
    THEN {Stale}
    ELSE {Stale, Zeroed}

resume_L184 ==
    \E junk \in Junk(heap, mem, reg) :
        /\ pc = "resume_L184"
        /\ Ins("resume_L186", MovsbReg(reg), MovsbMem(heap, mem, reg, junk))

\* sub esi, ebx
\* a slip: the source pointer left where the copy advanced it
resume_L186_nosub == pc = "resume_L186" /\ Ins("resume_L189", reg, mem)

resume_L186 ==
    /\ pc = "resume_L186"
    /\ Ins("resume_L189", [reg EXCEPT !["esi"] = @ - reg["ebx"]], mem)

resume_L189 == pc = "resume_L189" /\ IPush("resume_L190", "edx")    \* 3rd arg: a
resume_L190 == pc = "resume_L190" /\ IPush("resume_L191", "ebx")    \* 2nd arg: stack_len
resume_L191 == pc = "resume_L191" /\ IPush("resume_L192", "esi")    \* 1st arg: stack_data
resume_L192 == pc = "resume_L192" /\ ICall("resume_L195", "eax")    \* call f
resume_L195 == pc = "resume_L195" /\ IPop("resume_L196", "edi")
resume_L196 == pc = "resume_L196" /\ IPop("resume_L197", "esi")
\* a slip in the restore order: the landed ebx popped into a scratch register
resume_L197_ecx == pc = "resume_L197" /\ IPop("resume_L198", "ecx")
resume_L197 == pc = "resume_L197" /\ IPop("resume_L198", "ebx")
\* a slip: the pop of ebp forgotten
resume_L198_skip == pc = "resume_L198" /\ Ins("resume_L200", reg, mem)
resume_L198 == pc = "resume_L198" /\ IPop("resume_L200", "ebp")
resume_L200 == pc = "resume_L200" /\ IRet

resume ==
    \/ resume_L171 \/ resume_L172 \/ resume_L173 \/ resume_L174 \/ resume_L175
    \/ resume_L178 \/ resume_L180 \/ resume_L181 \/ resume_L182 \/ resume_L183
    \/ resume_L184 \/ resume_L186 \/ resume_L189 \/ resume_L190 \/ resume_L191
    \/ resume_L192 \/ resume_L195 \/ resume_L196 \/ resume_L197 \/ resume_L198
    \/ resume_L200

-----------------------------------------------------------------------------
(* Rust-level code.  A Rust function is a handful of actions, one per      *)
(* stretch of its body between two calls; it keeps the stdcall/cdecl       *)
(* discipline a compiler would: callee-saved registers are left as found   *)
(* by everything that returns, scratch registers are clobbered at will.    *)

\* m after pushing the words ws, ws[1] first, below the stack pointer sp
Pushed(m, sp, ws) ==
    [x \in DOMAIN m |->
        IF x < sp /\ x >= sp - W * Len(ws)
        THEN LET j == ((sp - 1 - x) \div W) + 1
             IN ByteOf(ws[j], x - (sp - W * j))
        ELSE m[x]]

Lower(r, n) == [r EXCEPT !["esp"] = @ - W * n]

\* What a compiled callee may leave in the scratch registers.
Scratch(r) == [r EXCEPT !["eax"] = 57005, !["ecx"] = 57006, !["edx"] = 57007]

\* A frame that runs and never returns uses the callee-saved registers too.
Clobber(r) == [Scratch(r) EXCEPT !["ebx"] = 48879, !["esi"] = 48880,
                                 !["edi"] = 48881, !["ebp"] = 48882]

(* Saved-stack values, lib.rs:8-17.  One record shape for both variants    *)
(* of StackImpl and for "no value".                                        *)
NoStack == [tag |-> "None", data |-> 0, len |-> 0, f |-> 0, a |-> 0]
Boxed(p, n) == [tag |-> "Boxed", data |-> p, len |-> n, f |-> 0, a |-> 0]
Empty(f, a) == [tag |-> "Empty", data |-> 0, len |-> 0, f |-> f, a |-> a]

BoxPtr(i) == BoxBase + W * i
BoxOf(p) == IF p > BoxBase /\ p < ResBase /\ (p - BoxBase) % W = 0
            THEN (p - BoxBase) \div W ELSE 0
ResPtr(i) == ResBase + W * i
ResOf(p) == IF p > ResBase /\ p < CodeBase /\ (p - ResBase) % W = 0
            THEN (p - ResBase) \div W ELSE 0

\* Box::into_raw(Box::new(closure)): a fresh box holding the closure
NewBox(bs, body, kind) ==
    Append(bs, [body |-> body, st |-> "live", kind |-> kind, cons |-> 0, drops |-> 0])

\* Box::from_raw(p) called to run the closure: the box is consumed
ConsumeBox(bs, p) ==
    IF BoxOf(p) \in 1..Len(bs)
    THEN [bs EXCEPT ![BoxOf(p)].st = "consumed", ![BoxOf(p)].cons = @ + 1]
    ELSE bs

\* lib.rs:198-200, boxed_drop: drop(Box::from_raw(entry))
boxed_drop(bs, p) ==
    IF BoxOf(p) \in 1..Len(bs)
    THEN [bs EXCEPT ![BoxOf(p)].st = "dropped", ![BoxOf(p)].drops = @ + 1]
    ELSE bs

BoxLive(bs, p) == BoxOf(p) \in 1..Len(bs) /\ bs[BoxOf(p)].st = "live"

\* lib.rs:169-175, from_parts_copied: a fresh buffer holding a copy of the bytes
from_parts_copied(h, m, data, len, n) ==
    Append(h, [bytes |-> Bytes(m, data, data + len), st |-> "live", n |-> n, frees |-> 0])

\* Releasing the Box<[u8]> at p of length len (an empty slice owns nothing).
FreeBuf(h, p, len) ==
    IF len = 0 THEN h
    ELSE IF BufOf(p) \in 1..Len(h)
         THEN [h EXCEPT ![BufOf(p)].st = "freed", ![BufOf(p)].frees = @ + 1]
         ELSE h

FreeOk(h, p, len) ==
    len = 0 \/ (BufLive(h, p) /\ Len(h[BufOf(p)].bytes) = len)

\* a slip: the null test of lib.rs:183 inverted
DropBoxes_inverted(bs, s) ==
    IF s.tag = "Empty" /\ s.a = 0 THEN boxed_drop(bs, s.a) ELSE bs

\* lib.rs:178-189, Drop for StackImpl, and the drop of the Box<[u8]> field
DropBoxes(bs, s) ==
    IF s.tag = "Empty" /\ s.a # 0 THEN boxed_drop(bs, s.a) ELSE bs

DropHeap(h, s) ==
    IF s.tag = "Boxed" THEN FreeBuf(h, s.data, s.len) ELSE h

DropOk(h, bs, s) ==
    CASE s.tag = "Empty" /\ s.a # 0 -> BoxLive(bs, s.a)
      [] s.tag = "Boxed" -> FreeOk(h, s.data, s.len)
      [] OTHER -> TRUE

\* a slip: the seed made with the trampoline of Stack::dock, lib.rs:26
from_entry_fn(bs) == Empty(Addr("fn_entry"), BoxPtr(Len(bs) + 1))

\* lib.rs:44-61, from_entry: box the closure, record the entry trampoline
from_entry(bs) == Empty(Addr("boxed_entry"), BoxPtr(Len(bs) + 1))

\* hist with an undefined-behaviour mark when ok fails
Mark(h, ok, what) == IF ok \/ h.herr # "none" THEN h ELSE [h EXCEPT !.herr = what]

-----------------------------------------------------------------------------
(* History of the run.  Nothing of the machine reads it, except that the   *)
(* generic program below counts its own suspends and activations against   *)
(* the bounds of the model and numbers its frames' locals.                 *)

Saved(r) == [k \in CalleeSaved |-> r[k]]

\* What the N-th call of asm::suspend must come back to: recorded at the call.
Capture(r, m, d, cb) ==
    [ret  |-> Rd32(m, r["esp"]),          \* the return address of the call
     esp  |-> r["esp"] + 3 * W,           \* the stack pointer after a stdcall return
     regs |-> Saved(r),                   \* the caller's callee-saved registers
     seg  |-> Bytes(m, r["esp"] + 3 * W, d),   \* the caller's live segment
     d    |-> d,
     cb   |-> cb]

\* hist after the saved stack s was dropped
NoteDrop(h, s) ==
    CASE s.tag = "Empty" -> [h EXCEPT !.droppedSeeds = @ \cup {BoxOf(s.a)}]
      [] s.tag = "Boxed" -> [h EXCEPT !.droppedBufs = @ \cup {BufOf(s.data)}]
      [] OTHER -> h

Hist0 ==
    [init     |-> [esp |-> 0, regs |-> [k \in CalleeSaved |-> 0], mem |-> <<>>],
     caps     |-> <<>>,     \* one Capture per call of asm::suspend
     land     |-> 0,        \* the capture whose snapshot resume is landing
     landArgs |-> <<0, 0, 0>>,   \* data, len and ctx of the last call of asm::resume
     nLand    |-> 0,        \* calls of asm::resume
     nPost    |-> 0,        \* calls of the post-copy callback
     nResume  |-> 0,
     nRestart |-> 0,
     nAct     |-> 0,        \* activations of the generic program asked for
     nEnter   |-> 0,        \* activations of the generic program entered
     restartAt |-> 0,       \* live-segment length at the last restart
     restArgs |-> <<0, 0>>, \* f and a of the last call of asm::restart
     entered  |-> [sp |-> 0, ret |-> 0],   \* where dock's call left its entry
     inner    |-> 0,        \* the stack pointer at the call of a dock under the dock
     resumedSeeds |-> {},   \* boxes of the seeds handed to Stack::resume
     droppedSeeds |-> {},   \* boxes of the seeds dropped unresumed
     droppedBufs  |-> {},   \* buffers of the snapshots dropped unresumed
     lastRet  |-> -1,       \* what the last returning entry callable returned
     herr     |-> "none"]   \* the first misuse of the heap, if any

-----------------------------------------------------------------------------
(* Stack::dock, lib.rs:24-36 *)

\* lib.rs:33-35: asm::dock(fn_entry, &mut entry)
Stack_dock ==
    LET sp == reg["esp"]
        m2 == Pushed(mem, sp, <<sp, Addr("fn_entry"), Addr("Stack_dock_ret")>>)
    IN /\ Exec("Stack_dock", "dock_L31", Lower(reg, 3), m2)
       /\ hist' = [hist EXCEPT !.init = [esp |-> sp - 3 * W, regs |-> Saved(reg), mem |-> m2],
                                !.nAct = 1]
       /\ UNCHANGED <<STACK_START, parked, rust>>

\* lib.rs:35: Box::from_raw(the pointer asm::dock returned)
Stack_dock_ret ==
    /\ Exec("Stack_dock_ret", "done", reg, mem)
    /\ out' = IF ResOf(reg["eax"]) \in 1..Len(results)
              THEN results[ResOf(reg["eax"])] ELSE -1
    /\ UNCHANGED <<STACK_START, parked, heap, boxes, results, queue, held, trace, hist>>

\* lib.rs:26-31, fn_entry: ptr::read the closure out of its holder, call it
fn_entry ==
    LET a == Rd32(mem, reg["esp"] + W)
    IN /\ Exec("fn_entry", LabelAt(Rd32(mem, a)), Lower(reg, 1),
               Pushed(mem, reg["esp"], <<Addr("fn_entry_ret")>>))
       /\ hist' = [hist EXCEPT !.entered = [sp |-> reg["esp"], ret |-> Rd32(mem, reg["esp"])]]
       /\ UNCHANGED <<STACK_START, parked, rust>>

\* Box::into_raw(Box::new(result)), then the stdcall return popping the argument
EntryRet(l) ==
    /\ Exec(l, LabelAt(Rd32(mem, reg["esp"])),
            [Scratch(reg) EXCEPT !["eax"] = ResPtr(Len(results) + 1),
                                 !["esp"] = reg["esp"] + 2 * W],
            mem)
    /\ results' = Append(results, reg["eax"])
    /\ hist' = [hist EXCEPT !.lastRet = reg["eax"]]
    /\ UNCHANGED <<STACK_START, parked, heap, boxes, queue, held, out, trace>>

fn_entry_ret == pc = "fn_entry_ret" /\ EntryRet("fn_entry_ret")

\* lib.rs:191-196, boxed_entry: Box::from_raw(entry)() takes the box and calls it
boxed_entry ==
    LET a == Rd32(mem, reg["esp"] + W)
    IN /\ Exec("boxed_entry",
               IF BoxOf(a) \in 1..Len(boxes) THEN boxes[BoxOf(a)].body ELSE "crash",
               Lower(reg, 1), Pushed(mem, reg["esp"], <<Addr("boxed_entry_ret")>>))
       /\ boxes' = ConsumeBox(boxes, a)
       /\ hist' = Mark(hist, BoxLive(boxes, a), "box used after release")
       /\ UNCHANGED <<STACK_START, parked, heap, results, queue, held, out, trace>>

boxed_entry_ret == pc = "boxed_entry_ret" /\ EntryRet("boxed_entry_ret")

-----------------------------------------------------------------------------
(* Stack::suspend, lib.rs:85-117.  The callback closure arrives in ecx. *)

\* lib.rs:113-115: box the callback, asm::suspend(suspend_trampoline, f)
Stack_suspend ==
    LET r2 == Lower(reg, 3)
        m2 == Pushed(mem, reg["esp"], <<BoxPtr(Len(boxes) + 1),
                     Addr("suspend_trampoline"), Addr("Stack_suspend_ret")>>)
    IN /\ Exec("Stack_suspend", "suspend_L112", r2, m2)
       /\ boxes' = NewBox(boxes, LabelAt(reg["ecx"]), "callback")
       /\ hist' = [hist EXCEPT !.caps =
                     Append(@, Capture(r2, m2, STACK_START, LabelAt(reg["ecx"])))]
       /\ UNCHANGED <<STACK_START, parked, heap, results, queue, held, out, trace>>

\* lib.rs:116-117: asm::suspend came back, return to the caller
Stack_suspend_ret ==
    /\ Exec("Stack_suspend_ret", LabelAt(Rd32(mem, reg["esp"])),
            [Scratch(reg) EXCEPT !["esp"] = reg["esp"] + W], mem)
    /\ UNCHANGED <<STACK_START, parked, rust, hist>>

\* lib.rs:91-110, suspend_trampoline(stack_data, stack_len, fn_ptr)
suspend_trampoline ==
    LET data == Rd32(mem, reg["esp"] + W)
        len  == Rd32(mem, reg["esp"] + 2 * W)
        fptr == Rd32(mem, reg["esp"] + 3 * W)
    IN /\ Exec("suspend_trampoline",
               \* a length above isize::MAX: the copy of lib.rs:99 cannot allocate
               IF len >= 0 /\ BoxOf(fptr) \in 1..Len(boxes)
               THEN boxes[BoxOf(fptr)].body ELSE "crash",
               Lower(reg, 1), Pushed(mem, reg["esp"], <<Addr("suspend_trampoline_ret")>>))
       /\ heap' = from_parts_copied(heap, mem, data, len, Len(hist.caps))
       /\ held' = Boxed(BufPtr(Len(heap) + 1), len)
       /\ boxes' = ConsumeBox(boxes, fptr)
       /\ hist' = Mark(hist, BoxLive(boxes, fptr), "box used after release")
       /\ UNCHANGED <<STACK_START, parked, results, queue, out, trace>>

-----------------------------------------------------------------------------
(* Stack::resume, lib.rs:127-160.  The saved stack arrives in held. *)

\* lib.rs:138-159
Stack_resume ==
    /\ pc = "Stack_resume"
    /\ held.tag # "None"
    /\ IF held.tag = "Boxed"
       THEN \* lib.rs:139-152: into_raw(take(bytes)), asm::resume(data, len, null, trampoline)
            /\ Exec("Stack_resume", "resume_L171", Lower(reg, 5),
                    Pushed(mem, reg["esp"],
                           <<Addr("land_drop_coroutine_trampoline"), 0, held.len,
                             held.data, Addr("Stack_resume_ret")>>))
            /\ held' = Boxed(0, 0)
            /\ hist' = [hist EXCEPT !.nResume = @ + 1,
                          !.land = IF BufOf(held.data) \in 1..Len(heap)
                                   THEN heap[BufOf(held.data)].n ELSE 0,
                          !.landArgs = <<held.data, held.len, 0>>,
                          !.nLand = @ + 1]
       ELSE \* lib.rs:154-158: asm::restart(f, take(a))
            /\ Exec("Stack_resume", "restart_L80", Lower(reg, 3),
                    Pushed(mem, reg["esp"], <<held.a, held.f, Addr("Stack_resume_ret")>>))
            /\ held' = [held EXCEPT !.a = 0]
            /\ hist' = [hist EXCEPT !.nResume = @ + 1, !.land = 0,
                          !.restartAt = STACK_START - reg["esp"],
                          !.restArgs = <<held.f, held.a>>,
                          !.resumedSeeds = @ \cup {BoxOf(held.a)}]
    /\ UNCHANGED <<STACK_START, parked, heap, boxes, results, queue, out, trace>>

\* a slip: the buffer rebuilt from its raw parts but forgotten, not dropped
land_drop_forget ==
    /\ Exec("land_drop_coroutine_trampoline", LabelAt(Rd32(mem, reg["esp"])),
            [Scratch(reg) EXCEPT !["esp"] = reg["esp"] + 4 * W], mem)
    /\ UNCHANGED <<STACK_START, parked, rust, hist>>

\* lib.rs:128-136: drop(Stack::from_parts_owned(stack_data, stack_len))
land_drop_coroutine_trampoline ==
    LET data == Rd32(mem, reg["esp"] + W)
        len  == Rd32(mem, reg["esp"] + 2 * W)
    IN /\ Exec("land_drop_coroutine_trampoline", LabelAt(Rd32(mem, reg["esp"])),
               [Scratch(reg) EXCEPT !["esp"] = reg["esp"] + 4 * W], mem)
       /\ heap' = DropHeap(heap, Boxed(data, len))
       /\ hist' = Mark([hist EXCEPT !.nPost = @ + 1], FreeOk(heap, data, len),
                       "buffer released twice or never allocated")
       /\ UNCHANGED <<STACK_START, parked, boxes, results, queue, held, out, trace>>

-----------------------------------------------------------------------------
(* Stack::restart, lib.rs:73-75.  The entry closure arrives in ecx. *)

Stack_restart ==
    /\ Exec("Stack_restart", "restart_L80", Lower(reg, 3),
            Pushed(mem, reg["esp"], <<BoxPtr(Len(boxes) + 1), Addr("boxed_entry"),
                                      Addr("Stack_restart_ret")>>))
    /\ boxes' = NewBox(boxes, LabelAt(reg["ecx"]), "restart")
    /\ hist' = [hist EXCEPT !.nRestart = @ + 1, !.restartAt = STACK_START - reg["esp"],
                             !.restArgs = <<Addr("boxed_entry"), BoxPtr(Len(boxes) + 1)>>]
    /\ UNCHANGED <<STACK_START, parked, heap, results, queue, held, out, trace>>

lib ==
    \/ Stack_dock \/ Stack_dock_ret \/ fn_entry \/ fn_entry_ret
    \/ boxed_entry \/ boxed_entry_ret
    \/ Stack_suspend \/ Stack_suspend_ret \/ suspend_trampoline
    \/ Stack_resume \/ land_drop_coroutine_trampoline \/ Stack_restart

-----------------------------------------------------------------------------
(* The code under the dock.  Entry callables and suspend callbacks are the *)
(* library's input; G is a generic one that, wherever it stands, may do    *)
(* anything the interface offers: return a value, call deeper, suspend     *)
(* with any of the callbacks, restart, create or drop a seed, or run the   *)
(* pump of tests.rs.  It keeps a frame pointer in ebp, a local in ebx and  *)
(* a local on the stack, and returns through its frame pointer.            *)

Vals == {7, 1234}          \* what an entry callable returns (tests.rs:10)
Tag(n) == 161 + 17 * n     \* what the n-th activation keeps in its locals
Unit == 0

\* what the run of the generic program has spent of its budget
Ops == (hist.nAct - 1) + Len(hist.caps)

GFrame == 4                \* words of one G activation: return address + 3

\* prologue: push ebp; mov ebp, esp; push ebx; mov ebx, tag; push local
G_enter ==
    LET sp  == reg["esp"]
        tag == Tag(hist.nEnter)
    IN /\ Exec("G_enter", "G_body",
               [Lower(reg, 3) EXCEPT !["ebp"] = sp - W, !["ebx"] = tag],
               Pushed(mem, sp, <<reg["ebp"], reg["ebx"], tag + 256>>))
       /\ hist' = [hist EXCEPT !.nEnter = @ + 1]
       /\ UNCHANGED <<STACK_START, parked, rust>>

\* An activation called by an entry trampoline returns a value of the dock's
\* type; a nested one returns unit.
RetVals(to) == IF to \in {"fn_entry_ret", "boxed_entry_ret"} THEN Vals ELSE {Unit}

\* return v: mov eax, v; lea esp, [ebp-4]; pop ebx; pop ebp; ret
G_ret ==
    \E v \in RetVals(LabelAt(Rd32(mem, reg["ebp"] + W))) :
        LET bp == reg["ebp"]
        IN /\ Exec("G_body", LabelAt(Rd32(mem, bp + W)),
                   [Scratch(reg) EXCEPT !["eax"] = v, !["ebx"] = Rd32(mem, bp - W),
                                        !["ebp"] = Rd32(mem, bp), !["esp"] = bp + 2 * W],
                   mem)
           /\ UNCHANGED <<STACK_START, parked, rust, hist>>

\* call a nested activation
G_nest ==
    /\ STACK_START - reg["esp"] <= W * GFrame * MaxDepth
    /\ Ops < MaxOps
    /\ Exec("G_body", "G_enter", Lower(reg, 1), Pushed(mem, reg["esp"], <<Addr("G_body")>>))
    /\ hist' = [hist EXCEPT !.nAct = @ + 1]
    /\ UNCHANGED <<STACK_START, parked, rust>>

After(cb) == CASE cb = "cb_resume" -> "G_after_resume"
               [] cb = "cb_send_pump" -> "G_after_send"
               [] OTHER -> "G_after_drop"

\* Stack::suspend(cb), tests.rs:21, 53
G_suspend ==
    \E cb \in {"cb_resume", "cb_send_pump", "cb_drop_restart"} :
        /\ Ops < MaxOps
        /\ Exec("G_body", "Stack_suspend",
                [Lower(reg, 1) EXCEPT !["ecx"] = Addr(cb)],
                Pushed(mem, reg["esp"], <<Addr(After(cb))>>))
        /\ UNCHANGED <<STACK_START, parked, rust, hist>>

\* asm::suspend(cb_abort, ctx) with a callback that returns
G_asm_suspend ==
    LET r2 == Lower(reg, 3)
        m2 == Pushed(mem, reg["esp"], <<reg["ebx"], Addr("cb_abort"), Addr("G_after_abort")>>)
    IN /\ Ops < MaxOps
       /\ Exec("G_body", "suspend_L112", r2, m2)
       /\ hist' = [hist EXCEPT !.caps = Append(@, Capture(r2, m2, STACK_START, "cb_abort"))]
       /\ UNCHANGED <<STACK_START, parked, rust>>

\* the instruction after each call of suspend: carry on
G_after ==
    \E l \in {"G_after_resume", "G_after_send", "G_after_drop", "G_after_abort"} :
        /\ Exec(l, "G_body", reg, mem)
        /\ UNCHANGED <<STACK_START, parked, rust, hist>>

\* Stack::restart(g)
G_restart ==
    /\ Ops < MaxOps
    /\ Exec("G_body", "Stack_restart", [Lower(reg, 1) EXCEPT !["ecx"] = Addr("G_enter")],
            Pushed(mem, reg["esp"], <<Addr("G_unreachable")>>))
    /\ hist' = [hist EXCEPT !.nAct = @ + 1]
    /\ UNCHANGED <<STACK_START, parked, rust>>

\* tx.send(Stack::from_entry(g)), tests.rs:51
G_spawn ==
    /\ Ops < MaxOps
    /\ Exec("G_body", "G_body", Scratch(reg), mem)
    /\ queue' = Append(queue, from_entry(boxes))
    /\ boxes' = NewBox(boxes, "G_enter", "seed")
    /\ hist' = [hist EXCEPT !.nAct = @ + 1]
    /\ UNCHANGED <<STACK_START, parked, heap, results, held, out, trace>>

\* drop(rx.try_recv()): a saved stack dropped without being resumed
G_drop ==
    /\ queue # <<>>
    /\ Exec("G_body", "G_body", Scratch(reg), mem)
    /\ queue' = Tail(queue)
    /\ heap' = DropHeap(heap, Head(queue))
    /\ boxes' = DropBoxes(boxes, Head(queue))
    /\ hist' = Mark(NoteDrop(hist, Head(queue)), DropOk(heap, boxes, Head(queue)),
                    "released twice")
    /\ UNCHANGED <<STACK_START, parked, results, held, out, trace>>

\* pump(), tests.rs:67
G_pump ==
    /\ Exec("G_body", "pump", Lower(reg, 1), Pushed(mem, reg["esp"], <<Addr("G_unreachable")>>))
    /\ UNCHANGED <<STACK_START, parked, rust, hist>>

\* |stack| Stack::resume(stack), tests.rs:21-24
cb_resume ==
    /\ Exec("cb_resume", "Stack_resume", Lower(Clobber(reg), 1),
            Pushed(mem, reg["esp"], <<Addr("G_unreachable")>>))
    /\ UNCHANGED <<STACK_START, parked, rust, hist>>

\* |c| { tx.send(c); pump() }, tests.rs:53-58
cb_send_pump ==
    /\ Exec("cb_send_pump", "pump", Lower(Clobber(reg), 1),
            Pushed(mem, reg["esp"], <<Addr("G_unreachable")>>))
    /\ queue' = Append(queue, held)
    /\ held' = NoStack
    /\ UNCHANGED <<STACK_START, parked, heap, boxes, results, out, trace, hist>>

\* |c| { drop(c); Stack::restart(|| {}) }
cb_drop_restart ==
    /\ Exec("cb_drop_restart", "Stack_restart",
            [Lower(Clobber(reg), 1) EXCEPT !["ecx"] = Addr("unit_body")],
            Pushed(mem, reg["esp"], <<Addr("G_unreachable")>>))
    /\ heap' = DropHeap(heap, held)
    /\ boxes' = DropBoxes(boxes, held)
    /\ held' = NoStack
    /\ hist' = Mark(NoteDrop(hist, held), DropOk(heap, boxes, held), "released twice")
    /\ UNCHANGED <<STACK_START, parked, results, queue, out, trace>>

(* A callback that returns: a stdcall function of three arguments that     *)
(* uses two words of stack and every register, and restores the            *)
(* callee-saved ones before it returns.                                    *)
cb_abort ==
    /\ Exec("cb_abort", LabelAt(Rd32(mem, reg["esp"])),
            [Scratch(reg) EXCEPT !["esp"] = reg["esp"] + 4 * W],
            Pushed(mem, reg["esp"], <<48879, 48880>>))
    /\ UNCHANGED <<STACK_START, parked, rust, hist>>

\* || {}, tests.rs:46
unit_body ==
    /\ Exec("unit_body", LabelAt(Rd32(mem, reg["esp"])),
            [Scratch(reg) EXCEPT !["eax"] = Unit, !["esp"] = reg["esp"] + W], mem)
    /\ UNCHANGED <<STACK_START, parked, rust, hist>>

\* a pump that takes the most recently sent saved stack instead of the oldest
pump_newest ==
    /\ pc = "pump"
    /\ IF queue # <<>>
       THEN /\ Exec("pump", "Stack_resume", Lower(reg, 1),
                    Pushed(mem, reg["esp"], <<Addr("G_unreachable")>>))
            /\ held' = queue[Len(queue)]
            /\ queue' = SubSeq(queue, 1, Len(queue) - 1)
            /\ trace' = trace \o <<"recv_result", "recv coroutine:">>
       ELSE /\ Exec("pump", "Stack_restart", [Lower(reg, 1) EXCEPT !["ecx"] = Addr("unit_body")],
                    Pushed(mem, reg["esp"], <<Addr("G_unreachable")>>))
            /\ trace' = trace \o <<"recv_result", "recv error: Empty">>
            /\ UNCHANGED <<held, queue>>
    /\ UNCHANGED <<STACK_START, parked, heap, boxes, results, out, hist>>

\* a pump that calls itself again when the queue is empty
pump_again ==
    /\ pc = "pump"
    /\ IF queue # <<>>
       THEN /\ Exec("pump", "Stack_resume", Lower(reg, 1),
                    Pushed(mem, reg["esp"], <<Addr("G_unreachable")>>))
            /\ held' = Head(queue)
            /\ queue' = Tail(queue)
            /\ trace' = trace \o <<"recv_result", "recv coroutine:">>
       ELSE /\ Exec("pump", "pump", Lower(reg, 1),
                    Pushed(mem, reg["esp"], <<Addr("G_unreachable")>>))
            /\ UNCHANGED <<held, queue, trace>>
    /\ UNCHANGED <<STACK_START, parked, heap, boxes, results, out, hist>>

\* tests.rs:36-49, pump: resume the next queued saved stack, or restart with || {}
pump ==
    /\ pc = "pump"
    /\ IF queue # <<>>
       THEN /\ Exec("pump", "Stack_resume", Lower(reg, 1),
                    Pushed(mem, reg["esp"], <<Addr("G_unreachable")>>))
            /\ held' = Head(queue)
            /\ queue' = Tail(queue)
            /\ trace' = trace \o <<"recv_result", "recv coroutine:">>
       ELSE /\ Exec("pump", "Stack_restart", [Lower(reg, 1) EXCEPT !["ecx"] = Addr("unit_body")],
                    Pushed(mem, reg["esp"], <<Addr("G_unreachable")>>))
            /\ trace' = trace \o <<"recv_result", "recv error: Empty">>
            /\ UNCHANGED <<held, queue>>
    /\ UNCHANGED <<STACK_START, parked, heap, boxes, results, out, hist>>

-----------------------------------------------------------------------------
(* tests.rs:30-90, suspend_and_resume_complex: two coroutines A and B,     *)
(* each suspending twice, driven by the pump through the channel.          *)

Names == {"A", "B"}
CoL == [A |-> <<"coA_0", "coA_1", "coA_2">>, B |-> <<"coB_0", "coB_1", "coB_2">>]
CbL == [A |-> <<"cbA_1", "cbA_2">>, B |-> <<"cbB_1", "cbB_2">>]
CoTag == [A |-> 2560, B |-> 2816]     \* what each coroutine keeps in ebx

Started   == [A |-> "started A", B |-> "started B"]
Suspended == [A |-> <<"suspended A: 1", "suspended A: 2">>,
              B |-> <<"suspended B: 1", "suspended B: 2">>]
Sent      == [A |-> <<"sent A: 1", "sent A: 2">>, B |-> <<"sent B: 1", "sent B: 2">>]
Resumed   == [A |-> <<"resumed A: 1", "resumed A: 2">>,
              B |-> <<"resumed B: 1", "resumed B: 2">>]

\* tests.rs:50-88: send the seeds of A and B, then pump
T3_root ==
    /\ Exec("T3_root", "pump", Lower(Scratch(reg), 1),
            Pushed(mem, reg["esp"], <<Addr("G_unreachable")>>))
    /\ boxes' = NewBox(NewBox(boxes, "coA_0", "seed"), "coB_0", "seed")
    /\ queue' = queue \o <<from_entry(boxes), from_entry(NewBox(boxes, "coA_0", "seed"))>>
    /\ UNCHANGED <<STACK_START, parked, heap, results, held, out, trace, hist>>

\* tests.rs:52-53, 70-71: println!("started X"); Stack::suspend(callback 1)
co_0 ==
    \E X \in Names :
        /\ Exec(CoL[X][1], "Stack_suspend",
                [Lower(Scratch(reg), 1) EXCEPT !["ecx"] = Addr(CbL[X][1]),
                                               !["ebx"] = CoTag[X]],
                Pushed(mem, reg["esp"], <<Addr(CoL[X][2])>>))
        /\ trace' = Append(trace, Started[X])
        /\ UNCHANGED <<STACK_START, parked, heap, boxes, results, queue, held, out, hist>>

\* tests.rs:59-60, 77-78: println!("resumed X: 1"); Stack::suspend(callback 2)
co_1 ==
    \E X \in Names :
        /\ Exec(CoL[X][2], "Stack_suspend",
                [Lower(Scratch(reg), 1) EXCEPT !["ecx"] = Addr(CbL[X][2]),
                                               !["ebx"] = reg["ebx"] + 1],
                Pushed(mem, reg["esp"], <<Addr(CoL[X][3])>>))
        /\ trace' = Append(trace, Resumed[X][1])
        /\ UNCHANGED <<STACK_START, parked, heap, boxes, results, queue, held, out, hist>>

\* tests.rs:66-67, 84-85: println!("resumed X: 2"); pump()
co_2 ==
    \E X \in Names :
        /\ Exec(CoL[X][3], "pump", Lower(Scratch(reg), 1),
                Pushed(mem, reg["esp"], <<Addr("G_unreachable")>>))
        /\ trace' = Append(trace, Resumed[X][2])
        /\ UNCHANGED <<STACK_START, parked, heap, boxes, results, queue, held, out, hist>>

\* tests.rs:53-58 and alike: println!("suspended X: k"); tx.send(c);
\* println!("sent X: k"); pump()
cb_T3 ==
    \E X \in Names, k \in 1..2 :
        /\ Exec(CbL[X][k], "pump", Lower(Clobber(reg), 1),
                Pushed(mem, reg["esp"], <<Addr("G_unreachable")>>))
        /\ queue' = Append(queue, held)
        /\ held' = NoStack
        /\ trace' = trace \o <<Suspended[X][k], Sent[X][k]>>
        /\ UNCHANGED <<STACK_START, parked, heap, boxes, results, out, hist>>

user ==
    \/ G_enter \/ G_ret \/ G_nest \/ G_suspend \/ G_asm_suspend \/ G_after
    \/ G_restart \/ G_spawn \/ G_drop \/ G_pump
    \/ cb_resume \/ cb_send_pump \/ cb_drop_restart \/ cb_abort \/ unit_body \/ pump
    \/ T3_root \/ co_0 \/ co_1 \/ co_2 \/ cb_T3

-----------------------------------------------------------------------------
(* The initial state: a test function about to call Stack::dock(entry).    *)
(* Its frame holds the entry closure (lowest word) and locals of its own;  *)
(* the callee-saved registers hold its values.                             *)

Roots == {"G_enter", "T3_root"}

\* a process of one thread
NoThread ==
    [tid |-> 0, pc |-> "done", reg |-> [k \in RegNames |-> 0], held |-> NoStack, n |-> 0]

Sp0 == StackHi - W * CallerWords

Mem0(root) ==
    Pushed([x \in StackAddrs |-> 0], StackHi,
           [i \in 1..CallerWords |-> IF i = CallerWords THEN Addr(root) ELSE 51966 + i])

Reg0(s) ==
    [k \in RegNames |->
        CASE k = "esp" -> Sp0
          [] k = "ebp" -> StackHi
          [] k = "ebx" -> 4096 + s
          [] k = "esi" -> 8192 + s
          [] k = "edi" -> 12288 + s
          [] OTHER -> 0]

Init ==
    /\ pc = "Stack_dock"
    /\ \E s \in {1, 2} : reg = Reg0(s)
    /\ \E root \in Roots : mem = Mem0(root)
    /\ STACK_START = 0
    /\ heap = <<>>
    /\ boxes = <<>>
    /\ results = <<>>
    /\ queue = <<>>
    /\ held = NoStack
    /\ out = -1
    /\ trace = <<>>
    /\ hist = Hist0
    /\ parked = NoThread

Next == dock \/ restart \/ suspend \/ resume \/ lib \/ user

Spec == Init /\ [][Next]_vars

-----------------------------------------------------------------------------
(* Two threads.  cargo runs the tests of tests.rs on one thread each       *)
(* unless told --test-threads 1 (tests.rs:2); here two threads run         *)
(* suspend_and_resume_once, tests.rs:16-29, each on its own stack, in one  *)
(* address space and with the one STACK_START of asm.rs:9.  The processor  *)
(* runs one thread; the other's registers are parked until a switch.       *)

\* tests.rs:19-21: println!("... B"); Stack::suspend(|stack| ...)
once_B ==
    /\ Exec("once_B", "Stack_suspend", [Lower(reg, 1) EXCEPT !["ecx"] = Addr("cb_resume")],
            Pushed(mem, reg["esp"], <<Addr("once_D")>>))
    /\ trace' = Append(trace, "suspend_and_resume_once: B")
    /\ UNCHANGED <<STACK_START, parked, heap, boxes, results, queue, held, out, hist>>

\* tests.rs:25-26: println!("... D"); the closure returns ()
once_D ==
    /\ Exec("once_D", LabelAt(Rd32(mem, reg["esp"])),
            [Scratch(reg) EXCEPT !["eax"] = Unit, !["esp"] = reg["esp"] + W], mem)
    /\ trace' = Append(trace, "suspend_and_resume_once: D")
    /\ UNCHANGED <<STACK_START, parked, heap, boxes, results, queue, held, out, hist>>

\* each thread has half of the stack region
ThreadWords == StackWords \div 2

\* the stack pointer of thread t when it calls Stack::dock
SpOf(t) == Sp0 - W * ThreadWords * (t - 1)

\* the callers' frames of both threads, each holding its entry closure
Mem2 ==
    Pushed(Mem0("once_B"), SpOf(2) + W * CallerWords,
           [i \in 1..CallerWords |-> IF i = CallerWords THEN Addr("once_B") ELSE 47806 + i])

Reg2 == [Reg0(2) EXCEPT !["esp"] = SpOf(2), !["ebp"] = SpOf(2) + W * CallerWords]

\* the thread that is running
Running == 3 - parked.tid

\* what a switch away from the running thread costs: a thread that has
\* returned from its test leaves the processor, any other is preempted
Preempts == IF pc = "done" THEN 0 ELSE 1

\* a switch: the running thread's registers and locals are parked, the
\* other thread's come back; memory and the statics are the process's
Switch ==
    /\ pc # "crash"
    /\ parked.tid # 0
    /\ parked.pc \notin {"done", "crash"}
    /\ parked.n + Preempts <= MaxSwitches
    /\ pc' = parked.pc
    /\ reg' = parked.reg
    /\ held' = parked.held
    /\ parked' = [tid |-> Running, pc |-> pc, reg |-> reg, held |-> held,
                  n |-> parked.n + Preempts]
    /\ UNCHANGED <<mem, STACK_START, heap, boxes, results, queue, out, trace, hist>>

Init2 ==
    /\ pc = "Stack_dock"
    /\ reg = Reg0(1)
    /\ mem = Mem2
    /\ parked = [tid |-> 2, pc |-> "Stack_dock", reg |-> Reg2, held |-> NoStack, n |-> 0]
    /\ STACK_START = 0
    /\ heap = <<>>
    /\ boxes = <<>>
    /\ results = <<>>
    /\ queue = <<>>
    /\ held = NoStack
    /\ out = -1
    /\ trace = <<>>
    /\ hist = Hist0

Next2 ==
    \/ Switch
    \/ dock \/ resume
    \/ suspend_L112 \/ suspend_L113 \/ suspend_L114 \/ suspend_L116 \/ suspend_L117
    \/ suspend_L118 \/ suspend_L119 \/ suspend_L120 \/ suspend_L122 \/ suspend_L124
    \/ suspend_L125 \/ suspend_L127 \/ suspend_L128 \/ suspend_L129 \/ suspend_L130
    \/ Stack_dock \/ Stack_dock_ret \/ fn_entry \/ fn_entry_ret
    \/ Stack_suspend \/ Stack_suspend_ret \/ suspend_trampoline
    \/ Stack_resume \/ land_drop_coroutine_trampoline
    \/ once_B \/ once_D \/ cb_resume

Spec2 == Init2 /\ [][Next2]_vars

-----------------------------------------------------------------------------
(* A dock under a dock.  lib.rs:20-22 forbids calling Stack::dock inside a *)
(* call to Stack::dock; this is what the code does when a client does it.  *)
(* The outer entry closure N calls Stack::dock(|| v), and when that        *)
(* returns it either returns or calls Stack::suspend(cb_resume) with some  *)
(* words of locals on its stack.                                           *)

\* push ebp; mov ebp, esp; the inner closure in a local; then lib.rs:33-35,
\* asm::dock(fn_entry, &mut entry)
N_outer ==
    LET sp == reg["esp"]
    IN /\ Exec("N_outer", "dock_L31", [Lower(reg, 5) EXCEPT !["ebp"] = sp - W],
               Pushed(mem, sp, <<reg["ebp"], Addr("N_inner"), sp - 2 * W,
                                 Addr("fn_entry"), Addr("N_docked")>>))
       /\ hist' = [hist EXCEPT !.inner = sp - 5 * W]
       /\ UNCHANGED <<STACK_START, parked, rust>>

\* the inner entry closure: || v
N_inner ==
    \E v \in Vals :
        /\ Exec("N_inner", LabelAt(Rd32(mem, reg["esp"])),
                [Scratch(reg) EXCEPT !["eax"] = v, !["esp"] = reg["esp"] + W], mem)
        /\ UNCHANGED <<STACK_START, parked, rust, hist>>

\* the inner dock has returned: Stack::suspend(cb_resume), lib.rs:85, called
\* with n words of locals pushed
N_docked ==
    \E n \in 0..MaxPad :
        /\ Exec("N_docked", "Stack_suspend",
                [Lower(Scratch(reg), n + 1) EXCEPT !["ecx"] = Addr("cb_resume")],
                Pushed(mem, reg["esp"],
                       [i \in 1..(n + 1) |-> IF i = n + 1 THEN Addr("N_after") ELSE 700 + i]))
        /\ UNCHANGED <<STACK_START, parked, rust, hist>>

\* return v, after the inner dock or after the suspend:
\* mov eax, v; mov esp, ebp; pop ebp; ret
N_after ==
    \E l \in {"N_docked", "N_after"}, v \in Vals :
        /\ Exec(l, LabelAt(Rd32(mem, reg["ebp"] + W)),
                [Scratch(reg) EXCEPT !["eax"] = v, !["ebp"] = Rd32(mem, reg["ebp"]),
                                     !["esp"] = reg["ebp"] + 2 * W],
                mem)
        /\ UNCHANGED <<STACK_START, parked, rust, hist>>

Init3 ==
    /\ pc = "Stack_dock"
    /\ \E s \in {1, 2} : reg = Reg0(s)
    /\ mem = Mem0("N_outer")
    /\ STACK_START = 0
    /\ heap = <<>>
    /\ boxes = <<>>
    /\ results = <<>>
    /\ queue = <<>>
    /\ held = NoStack
    /\ out = -1
    /\ trace = <<>>
    /\ hist = Hist0
    /\ parked = NoThread

\* the callback cb_resume never returns into suspend
Next3 ==
    \/ dock \/ resume
    \/ suspend_L112 \/ suspend_L113 \/ suspend_L114 \/ suspend_L116 \/ suspend_L117
    \/ suspend_L118 \/ suspend_L119 \/ suspend_L120 \/ suspend_L122 \/ suspend_L124
    \/ suspend_L125 \/ suspend_L127 \/ suspend_L128 \/ suspend_L129 \/ suspend_L130
    \/ Stack_dock \/ Stack_dock_ret \/ fn_entry \/ fn_entry_ret
    \/ Stack_suspend \/ Stack_suspend_ret \/ suspend_trampoline
    \/ Stack_resume \/ land_drop_coroutine_trampoline \/ cb_resume
    \/ N_outer \/ N_inner \/ N_docked \/ N_after

Spec3 == Init3 /\ [][Next3]_vars

-----------------------------------------------------------------------------
(* The run of suspend_and_resume_complex, tests.rs:30-90, alone: one       *)
(* thread, one dock, the entry closure of tests.rs:50.  The processor      *)
(* keeps executing the one thread, so a step that can be taken is taken.   *)

InitQ ==
    /\ pc = "Stack_dock"
    /\ \E s \in {1, 2} : reg = Reg0(s)
    /\ mem = Mem0("T3_root")
    /\ STACK_START = 0
    /\ heap = <<>>
    /\ boxes = <<>>
    /\ results = <<>>
    /\ queue = <<>>
    /\ held = NoStack
    /\ out = -1
    /\ trace = <<>>
    /\ hist = Hist0
    /\ parked = NoThread

\* no callback returns into suspend, and the entry closure never returns
NextQ ==
    \/ dock \/ restart \/ resume
    \/ suspend_L112 \/ suspend_L113 \/ suspend_L114 \/ suspend_L116 \/ suspend_L117
    \/ suspend_L118 \/ suspend_L119 \/ suspend_L120 \/ suspend_L122 \/ suspend_L124
    \/ suspend_L125 \/ suspend_L127 \/ suspend_L128 \/ suspend_L129 \/ suspend_L130
    \/ Stack_dock \/ Stack_dock_ret \/ fn_entry \/ boxed_entry \/ boxed_entry_ret
    \/ Stack_suspend \/ Stack_suspend_ret \/ suspend_trampoline
    \/ Stack_resume \/ land_drop_coroutine_trampoline \/ Stack_restart
    \/ T3_root \/ co_0 \/ co_1 \/ co_2 \/ cb_T3 \/ pump \/ unit_body

SpecQ == InitQ /\ [][NextQ]_vars /\ WF_vars(NextQ)

-----------------------------------------------------------------------------
(* Properties *)

D == STACK_START

\* The run so far called none of suspend, resume, restart.
Pure == Len(hist.caps) = 0 /\ hist.nResume = 0 /\ hist.nRestart = 0

\* asm::dock has returned to the instruction after its call in Stack::dock.
Returned == pc \in {"Stack_dock_ret", "done"}

\* The pointer in eax is the box of the value the entry callable returned.
ReturnsLastRet ==
    /\ ResOf(reg["eax"]) \in 1..Len(results)
    /\ results[ResOf(reg["eax"])] = hist.lastRet
    /\ hist.lastRet # -1
    /\ pc = "done" => out = hist.lastRet

\* The caller's stack pointer is where a stdcall return from dock leaves it
\* and its callee-saved registers are those it called dock with.
CallerRestored ==
    /\ reg["esp"] = hist.init.esp + 3 * W
    /\ Saved(reg) = hist.init.regs

\* Every stack byte above dock's popped return address and arguments is as
\* it was at the call.
CallerStackKept ==
    \A x \in StackAddrs : x >= hist.init.esp + 3 * W => mem[x] = hist.init.mem[x]

(* C1. Dock transparency: when the entry returns V without any suspend,    *)
(* resume or restart, the machine does not crash and dock returns V to its *)
(* caller with the stack pointer at its entry value plus the three popped  *)
(* words, the callee-saved registers as at dock entry, and every stack     *)
(* byte above the popped words unchanged.                                  *)
C1_DockTransparency ==
    Pure => /\ pc # "crash"
            /\ Returned => ReturnsLastRet /\ CallerRestored /\ CallerStackKept

C1_Witness ==
    /\ pc = "done" /\ Pure /\ out = 1234
    /\ Rd32(mem, Sp0) = Addr("G_enter")

\* The state a snapshot or an aborted suspend must come back to: that of a
\* normal return of the call of asm::suspend recorded in c.
BackAt(c) ==
    /\ pc = LabelAt(c.ret)
    /\ reg["esp"] = c.esp
    /\ Saved(reg) = c.regs
    /\ Bytes(mem, c.esp, c.d) = c.seg
    /\ D = c.d

Landing == pc = "resume_L200" /\ hist.land \in 1..Len(hist.caps)

(* C2. Suspend-resume identity: when resume lands the snapshot of a        *)
(* suspend whose callback resumed it at once, its final ret continues at   *)
(* the instruction after the suspend call with the stack pointer, the      *)
(* callee-saved registers and every byte of the suspender's live segment   *)
(* as after a normal return of suspend; and in a run whose only switch was *)
(* that one, the dock then returns the entry's value.                      *)
C2_SuspendResumeIdentity ==
    /\ [][(Landing /\ hist.caps[hist.land].cb = "cb_resume")
            => BackAt(hist.caps[hist.land])']_vars
    /\ []((Returned /\ hist.nRestart = 0 /\ hist.nResume = Len(hist.caps)
             /\ \A n \in 1..Len(hist.caps) : hist.caps[n].cb = "cb_resume")
            => ReturnsLastRet /\ CallerRestored)

C2_Witness ==
    /\ pc = "done" /\ out = 7
    /\ Len(hist.caps) = 1 /\ hist.caps[1].cb = "cb_resume"
    /\ hist.nResume = 1 /\ hist.nRestart = 0

(* C3. Restart replaces the root: in a run that restarted, from whatever   *)
(* depth and after whatever suspends and resumes, the machine does not     *)
(* crash, and when an entry callable returns V the outer dock returns V to *)
(* its original caller with the caller's stack pointer and callee-saved    *)
(* registers restored as on a dock that never restarted.                   *)
C3_RestartReplacesRoot ==
    hist.nRestart > 0 =>
        /\ pc # "crash"
        /\ Returned => ReturnsLastRet /\ CallerRestored

\* restart(g) called two frames deep, g returned 7, nothing else switched
C3_Witness ==
    /\ pc = "done" /\ out = 7
    /\ hist.nRestart = 1 /\ hist.nResume = 0 /\ Len(hist.caps) = 0
    /\ hist.restartAt > 2 * W * GFrame

(* C4. Ordering of resumptions: for every N, the final ret of a resume of  *)
(* the snapshot captured by the N-th suspend continues at the instruction  *)
(* after the N-th suspend's call, with the callee-saved registers and the  *)
(* live segment of the N-th capture, whatever happened in between.         *)
C4_ResumeOrdering ==
    [][Landing => BackAt(hist.caps[hist.land])']_vars

\* a snapshot lands after a later suspend was captured
C4_Witness ==
    /\ Landing
    /\ hist.land < Len(hist.caps)
    /\ hist.caps[hist.land].seg # hist.caps[Len(hist.caps)].seg

\* The run is that of tests.rs:31, suspend_and_resume_complex.
IsT3 == Rd32(mem, Sp0) = Addr("T3_root")

Expected ==
    <<"started A", "suspended A: 1", "started B", "suspended B: 1",
      "resumed A: 1", "suspended A: 2", "resumed B: 1", "suspended B: 2",
      "resumed A: 2", "resumed B: 2">>

IsEvent(e) == \E i \in 1..Len(Expected) : Expected[i] = e
Events(t) == SelectSeq(t, IsEvent)
IsPrefix(a, b) == Len(a) <= Len(b) /\ \A i \in 1..Len(a) : a[i] = b[i]

(* C5. Two coroutines alternating via the queue: in the run of             *)
(* suspend_and_resume_complex the started/suspended/resumed messages       *)
(* printed so far are always a prefix of the expected ten, the machine     *)
(* never crashes, and when the dock has returned they are exactly the ten. *)
C5_QueueTrace ==
    IsT3 => /\ pc # "crash"
            /\ IsPrefix(Events(trace), Expected)
            /\ pc = "done" => Events(trace) = Expected

C5_Witness == IsT3 /\ pc = "done" /\ Len(trace) > Len(Expected)

(* C6. Aborted suspend is a no-op: when the callback returns, the ret at   *)
(* asm.rs:138 comes back to the caller of suspend with the stack pointer   *)
(* of a stdcall return, the callee-saved registers of the call, and the    *)
(* caller's live segment and D unchanged.                                  *)
C6_AbortedSuspend ==
    [][pc = "suspend_L138" => BackAt(hist.caps[Len(hist.caps)])']_vars

C6_Witness ==
    /\ pc = "G_after_abort"
    /\ hist.caps[Len(hist.caps)].cb = "cb_abort"
    /\ reg["esp"] = hist.caps[Len(hist.caps)].esp

\* asm.rs:47: the argument is pushed and D recorded, f is about to be called
AtDockCall == pc = "dock_L47"

\* the first instruction of an entry trampoline
AtEntry == pc \in {"fn_entry", "boxed_entry"}

\* the ret of an entry trampoline, back into dock
AtEntryRet == pc \in {"fn_entry_ret", "boxed_entry_ret"}

\* asm.rs:84-85, restart after it has reset the stack pointer to the dock
AtRestartReset == pc \in {"restart_L84", "restart_L85"}

DockPcs ==
    {"Stack_dock", "dock_L31", "dock_L32", "dock_L33", "dock_L35", "dock_L36",
     "dock_L37", "dock_L38", "dock_L39", "dock_L41", "dock_L44", "dock_L45",
     "dock_L47", "dock_L49", "dock_L50", "dock_L51", "dock_L52", "dock_L53",
     "Stack_dock_ret", "done", "crash"}

InDock == pc \notin DockPcs

Seeds == {i \in 1..Len(boxes) : boxes[i].kind = "seed"}

\* The box pointer that asm::restart is carrying to the entry trampoline.
Carried ==
    CASE pc = "restart_L80" -> Rd32(mem, reg["esp"] + 2 * W)
      [] pc = "restart_L81" -> Rd32(mem, reg["esp"] + W)
      [] pc = "restart_L82" -> Rd32(mem, reg["esp"])
      [] pc \in {"restart_L83", "restart_L84", "restart_L85"} -> reg["ecx"]
      [] pc = "boxed_entry" -> Rd32(mem, reg["esp"] + W)
      [] OTHER -> 0

(* C9. Seed closure is released exactly once: a seed dropped unresumed has *)
(* had drop_a run exactly once on its box and the box was never consumed;  *)
(* a resumed seed never has drop_a run, and its box is consumed exactly    *)
(* once by the entry trampoline (not yet while restart still carries it to *)
(* the trampoline); no box is both consumed and dropped, or released       *)
(* twice, and no released box is used.                                     *)
C9_SeedReleasedOnce ==
    /\ hist.herr = "none"
    /\ \A i \in Seeds :
        /\ boxes[i].cons + boxes[i].drops <= 1
        /\ i \in hist.droppedSeeds => boxes[i].drops = 1 /\ boxes[i].cons = 0
        /\ i \in hist.resumedSeeds =>
              /\ boxes[i].drops = 0
              /\ boxes[i].cons = (IF Carried = BoxPtr(i) THEN 0 ELSE 1)
        /\ i \notin (hist.droppedSeeds \cup hist.resumedSeeds) => boxes[i].st = "live"

\* one seed was dropped unresumed, another was resumed and has started
C9_Witness ==
    \E i, j \in Seeds :
        /\ i \in hist.droppedSeeds /\ boxes[i].drops = 1
        /\ j \in hist.resumedSeeds /\ boxes[j].cons = 1

\* the buffer of the snapshot that resume is landing
LandBuf == CHOOSE i \in 1..Len(heap) : heap[i].n = hist.land

ResumeCopying ==
    {"resume_L171", "resume_L172", "resume_L173", "resume_L174", "resume_L175",
     "resume_L178", "resume_L180", "resume_L181", "resume_L182", "resume_L183",
     "resume_L184"}
ResumeCopied ==
    {"resume_L186", "resume_L189", "resume_L190", "resume_L191", "resume_L192",
     "land_drop_coroutine_trampoline"}
ResumePopping ==
    {"resume_L195", "resume_L196", "resume_L197", "resume_L198", "resume_L200"}

(* C10. Snapshot buffer is released exactly once and never read after      *)
(* release: while resume has not finished its copy the buffer is live, and *)
(* the bytes the copy reads are all inside it; once copied, the len bytes  *)
(* below D are the buffer's and the buffer is still live until the         *)
(* post-copy trampoline has run; when the landed registers are popped,     *)
(* before the resumed context runs, the buffer has been released, once; a  *)
(* snapshot dropped unresumed has its buffer released by the drop; no      *)
(* buffer is released twice.                                               *)
C10_SnapshotReleasedOnce ==
    /\ hist.herr = "none"
    /\ \A i \in 1..Len(heap) : heap[i].frees <= 1
    /\ \A i \in hist.droppedBufs : heap[i].st = "freed" /\ heap[i].frees = 1
    /\ pc \in ResumeCopying => heap[LandBuf].st = "live"
    /\ pc = "resume_L184" =>
          /\ reg["esi"] = BufPtr(LandBuf)
          /\ reg["ecx"] = Len(heap[LandBuf].bytes)
    /\ pc \in ResumeCopied =>
          /\ heap[LandBuf].st = "live"
          /\ Bytes(mem, D - Len(heap[LandBuf].bytes), D) = heap[LandBuf].bytes
    /\ pc \in ResumePopping =>
          /\ heap[LandBuf].st = "freed" /\ heap[LandBuf].frees = 1
          /\ Bytes(mem, D - Len(heap[LandBuf].bytes), D) = heap[LandBuf].bytes

\* a snapshot was landed and released, another was dropped unresumed
C10_Witness ==
    /\ pc = "resume_L195" /\ heap[LandBuf].st = "freed"
    /\ hist.droppedBufs # {}

\* The dock address of the run: four words below the stack pointer at which
\* asm::dock was entered (asm.rs:31-45).
DockOfRun == hist.init.esp - 4 * W

\* The box p belongs to no saved stack any more.
OwnedAlone(p) == held.a # p /\ \A k \in 1..Len(queue) : queue[k].a # p

(* C11. restart(entry) is equivalent to resume(from_entry(entry)): both    *)
(* enter asm::restart with f = boxed_entry and a = a live box of the       *)
(* closure, and both reach boxed_entry's first instruction in the same     *)
(* state: the stack pointer at D, D the dock of the run, the return        *)
(* address into dock at [D], and in the argument slot a box that was       *)
(* neither consumed nor dropped and that no saved stack refers to.         *)
C11_RestartIsResumeOfSeed ==
    /\ pc = "restart_L80" =>
          /\ Rd32(mem, reg["esp"] + W) = Addr("boxed_entry")
          /\ BoxLive(boxes, Rd32(mem, reg["esp"] + 2 * W))
          /\ OwnedAlone(Rd32(mem, reg["esp"] + 2 * W))
    /\ pc = "boxed_entry" =>
          /\ reg["esp"] = D
          /\ D = DockOfRun
          /\ Rd32(mem, D) = Addr("dock_L49")
          /\ BoxLive(boxes, Rd32(mem, D + W))
          /\ boxes[BoxOf(Rd32(mem, D + W))].cons = 0
          /\ boxes[BoxOf(Rd32(mem, D + W))].drops = 0
          /\ OwnedAlone(Rd32(mem, D + W))

\* boxed_entry entered by resume of a seed, in a run that restarted before
C11_Witness ==
    /\ pc = "boxed_entry"
    /\ hist.nRestart > 0
    /\ BoxOf(Rd32(mem, D + W)) \in hist.resumedSeeds

\* The dock address thread t records: asm::dock is entered three words
\* below the thread's stack pointer and has five words pushed at asm.rs:44.
OwnD(t) == SpOf(t) - 7 * W

\* a step of the running thread, not a switch
Steps(from, to) == pc = from /\ pc' = to /\ parked' = parked

(* C12. Two threads, each inside its own dock, race on the one dock        *)
(* pointer cell: every dock writes its own thread's dock address into the  *)
(* same cell, a switch of threads leaves the cell as it is, and suspend    *)
(* and resume read whatever the cell holds; so a thread whose dock was     *)
(* followed by the other thread's dock reads the other thread's address.   *)
C12_SharedDockCell ==
    [][/\ Steps("dock_L45", "dock_L47") => STACK_START' = OwnD(Running)
       /\ Steps("suspend_L124", "suspend_L125") => reg'["edi"] = STACK_START
       /\ Steps("resume_L180", "resume_L181") => reg'["edi"] = STACK_START
       /\ parked' # parked => STACK_START' = STACK_START]_vars

\* thread 1, in its suspend, has read the address thread 2's dock recorded
C12_Witness ==
    /\ Running = 1
    /\ pc = "suspend_L125"
    /\ reg["edi"] = OwnD(2)
    /\ OwnD(2) # OwnD(1)

\* the four bytes of a word, lowest first
Enc(w) == <<ByteOf(w, 0), ByteOf(w, 1), ByteOf(w, 2), ByteOf(w, 3)>>

\* The segment of the capture c: the caller's edi, esi, ebx and ebp, the
\* return address of the call, then the caller's live stack up to the dock.
Snapshot(c) ==
    Enc(c.regs["edi"]) \o Enc(c.regs["esi"]) \o Enc(c.regs["ebx"]) \o Enc(c.regs["ebp"])
    \o Enc(c.ret) \o c.seg

\* the stack pointer of the capture c once suspend has pushed the return
\* address and the four registers
CaptureSp(c) == c.esp - 5 * W

LastCap == hist.caps[Len(hist.caps)]

(* C13. Snapshot layout: when suspend calls its callback, the data pointer *)
(* it passes is the stack pointer it had after pushing the return address  *)
(* and the four callee-saved registers, the length is D minus that stack   *)
(* pointer, and the bytes from data up to D are, lowest first, the         *)
(* caller's edi, esi, ebx, ebp, the return address and the caller's live   *)
(* stack up to the byte at D - 1; every buffer made by from_parts_copied   *)
(* holds exactly these bytes of its capture, in this order.                *)
C13_SnapshotLayout ==
    /\ pc = "suspend_L130" =>
          /\ Rd32(mem, reg["esp"]) = CaptureSp(LastCap)
          /\ Rd32(mem, reg["esp"] + W) = D - CaptureSp(LastCap)
          /\ Bytes(mem, CaptureSp(LastCap), D) = Snapshot(LastCap)
    /\ \A i \in 1..Len(heap) :
          /\ Len(heap[i].bytes) = hist.caps[heap[i].n].d - CaptureSp(hist.caps[heap[i].n])
          /\ heap[i].bytes = Snapshot(hist.caps[heap[i].n])

\* two snapshots of different depths have been copied to the heap
C13_Witness ==
    /\ Len(heap) = 2
    /\ Len(heap[1].bytes) # Len(heap[2].bytes)
    /\ heap[2].bytes = Snapshot(hist.caps[heap[2].n])

\* the word at byte offset off of the byte sequence bs
Word(bs, off) ==
    bs[off + 1] + 256 * bs[off + 2] + 65536 * bs[off + 3]
    + 16777216 * (IF bs[off + 4] >= 128 THEN bs[off + 4] - 256 ELSE bs[off + 4])

\* the highest word of the byte sequence bs
TopWord(bs) == Word(bs, Len(bs) - W)

(* C14 as claimed: in every snapshot the highest word of the segment, the  *)
(* word at D - 4 .. D - 1, is the return address that resumption of the    *)
(* snapshot jumps to.                                                      *)
C14_Claimed ==
    \A i \in 1..Len(heap) : TopWord(heap[i].bytes) = hist.caps[heap[i].n].ret

(* C14. In every snapshot captured by suspend, the fifth word of the       *)
(* segment (bytes 16 .. 19, just above the four saved registers) is the    *)
(* return address of the call of suspend, and it is the word the final ret *)
(* of resume finds at the stack pointer and jumps to.                      *)
C14_ReturnAddressWord ==
    /\ [](/\ pc = "suspend_L130" =>
                Rd32(mem, Rd32(mem, reg["esp"]) + 4 * W) = LastCap.ret
          /\ \A i \in 1..Len(heap) :
                Word(heap[i].bytes, 4 * W) = hist.caps[heap[i].n].ret
          /\ pc = "resume_L200" =>
                /\ reg["esp"] = D - Len(heap[LandBuf].bytes) + 4 * W
                /\ Rd32(mem, reg["esp"]) = Word(heap[LandBuf].bytes, 4 * W))
    /\ [][pc = "resume_L200" =>
             pc' = LabelAt(Word(heap[LandBuf].bytes, 4 * W))]_vars

\* a snapshot longer than five words is about to return into its caller
C14_Witness ==
    /\ pc = "resume_L200"
    /\ Len(heap[LandBuf].bytes) > 5 * W
    /\ TopWord(heap[LandBuf].bytes) # Word(heap[LandBuf].bytes, 4 * W)

\* asm::resume is running, up to the return of its post-copy callback
InResume == pc \in ResumeCopying \cup ResumeCopied

\* the stack from the dock upward
AboveDock(m) == Bytes(m, D, StackHi)

(* C15. resume lands the snapshot exactly: no step of resume, from its     *)
(* first instruction to the return of the post-copy callback, changes a    *)
(* byte at an address >= D or the value of D; and when it comes to pop the *)
(* callee-saved registers the stack pointer is D - len and the len bytes   *)
(* at D - len .. D - 1 are the bytes data[0 .. len - 1], in order.         *)
C15_ExactLanding ==
    /\ [][InResume => /\ Bytes(mem', D, StackHi) = AboveDock(mem)
                      /\ STACK_START' = STACK_START]_vars
    /\ [](pc = "resume_L195" =>
             /\ reg["esp"] = D - Len(heap[LandBuf].bytes)
             /\ Bytes(mem, reg["esp"], D) = heap[LandBuf].bytes)

\* the snapshot of an earlier capture than the last has been landed
C15_Witness ==
    /\ pc = "resume_L195"
    /\ reg["esp"] = D - Len(heap[LandBuf].bytes)
    /\ hist.land < Len(hist.caps)
    /\ Len(heap[LandBuf].bytes) > 5 * W

(* C16. resume calls its post-copy callback exactly once per landing,      *)
(* after the copy and before it pops the landed registers: the callback    *)
(* starts with the return address of asm.rs:195 and the arguments (data,   *)
(* len, ctx) that resume itself was called with, the data pointer being    *)
(* back at its original value although the copy advanced it by len, and    *)
(* with the len bytes below D already equal to the buffer; it has run as   *)
(* many times as resume was called once the landed registers are popped,   *)
(* and once less until it is called.                                       *)
C16_PostCopyOnce ==
    /\ pc = "land_drop_coroutine_trampoline" =>
          /\ Rd32(mem, reg["esp"]) = Addr("resume_L195")
          /\ <<Rd32(mem, reg["esp"] + W), Rd32(mem, reg["esp"] + 2 * W),
               Rd32(mem, reg["esp"] + 3 * W)>> = hist.landArgs
          /\ reg["esp"] = D - hist.landArgs[2] - 4 * W
          /\ Bytes(mem, D - hist.landArgs[2], D) = heap[LandBuf].bytes
    /\ pc \in ResumeCopying \cup ResumeCopied => hist.nPost = hist.nLand - 1
    /\ pc \in ResumePopping => hist.nPost = hist.nLand
    /\ hist.nPost <= hist.nLand

\* the callback of the second landing of a run is entered
C16_Witness ==
    /\ pc = "land_drop_coroutine_trampoline"
    /\ hist.nLand = 2
    /\ hist.nPost = 1
    /\ Rd32(mem, reg["esp"] + W) = hist.landArgs[1]

\* restart takes its last step, the jump into f
RestartJumps == pc = "restart_L85" /\ pc' # pc

(* C17. restart(f, a) enters f with the stack shape of a fresh call from   *)
(* dock: the jump of asm.rs:85 goes to f and leaves the stack pointer      *)
(* where dock's call left it for its entry, with the same return address   *)
(* at the stack pointer, and the word at SP + 4, the argument slot of the  *)
(* entry, holds a.                                                         *)
C17_RestartShape ==
    [][RestartJumps =>
          /\ pc' = LabelAt(hist.restArgs[1])
          /\ reg'["esp"] = hist.entered.sp
          /\ Rd32(mem', reg'["esp"]) = hist.entered.ret
          /\ Rd32(mem', reg'["esp"] + W) = hist.restArgs[2]
          /\ reg'["esp"] = STACK_START']_vars

\* f is entered by the second restart of a run
C17_Witness ==
    /\ pc = "boxed_entry"
    /\ hist.nRestart + Cardinality(hist.resumedSeeds) = 2
    /\ reg["esp"] = hist.entered.sp
    /\ Rd32(mem, reg["esp"] + W) = hist.restArgs[2]

\* dock has recorded its address and has not returned to Stack::dock
DockOpen ==
    pc \notin {"Stack_dock", "dock_L31", "dock_L32", "dock_L33", "dock_L35", "dock_L36",
               "dock_L37", "dock_L38", "dock_L39", "dock_L41", "dock_L44", "dock_L45",
               "Stack_dock_ret", "done", "crash"}

(* C18. D has a single writer: the only step that changes the dock cell is *)
(* dock's store of asm.rs:45; no step of suspend, resume or restart        *)
(* changes it, so from that store until dock returns D is the address dock *)
(* recorded, in every state, whatever suspends, resumes and restarts the   *)
(* code under the dock performs.                                           *)
C18_SingleWriter ==
    /\ [][STACK_START' # STACK_START => pc = "dock_L45"]_vars
    /\ [](DockOpen => D = DockOfRun)

\* a snapshot has been landed after a restart and D is still dock's address
C18_Witness ==
    /\ pc = "resume_L195"
    /\ hist.nRestart + Cardinality(hist.resumedSeeds) > 0
    /\ Len(hist.caps) > 0
    /\ D = DockOfRun

\* an instruction of asm::suspend, asm::resume or asm::restart is next
SwitchPcs ==
    {"suspend_L112", "suspend_L113", "suspend_L114", "suspend_L116", "suspend_L117",
     "suspend_L118", "suspend_L119", "suspend_L120", "suspend_L122", "suspend_L124",
     "suspend_L125", "suspend_L127", "suspend_L128", "suspend_L129", "suspend_L130",
     "suspend_L133", "suspend_L134", "suspend_L135", "suspend_L136", "suspend_L138",
     "restart_L80", "restart_L81", "restart_L82", "restart_L83", "restart_L84",
     "restart_L85"}
    \cup ResumeCopying \cup (ResumeCopied \ {"land_drop_coroutine_trampoline"})
    \cup ResumePopping

InSwitch == pc \in SwitchPcs

\* The words of dock's frame from the saved edi up: the four registers dock
\* saved and the return address of dock's caller.
DockFrame(m) == Bytes(m, D + 2 * W, D + 7 * W)

(* C19. The dock frame is preserved: no instruction of suspend, resume or  *)
(* restart changes a byte of the stack at or above D, where the return     *)
(* address into dock lies, except that restart's store of asm.rs:84        *)
(* changes the entry-argument slot at D + 4 and nothing else; so while the *)
(* dock is open its frame holds the edi, esi, ebx and ebp that dock saved  *)
(* and the return address of its caller, and at dock's ret the four        *)
(* registers popped are those of dock's caller and the return address is   *)
(* the caller's.                                                           *)
C19_DockFramePreserved ==
    /\ [][InSwitch =>
             /\ Bytes(mem', D, D + W) = Bytes(mem, D, D + W)
             /\ Bytes(mem', D + 2 * W, StackHi) = Bytes(mem, D + 2 * W, StackHi)
             /\ pc # "restart_L84" =>
                    Bytes(mem', D + W, D + 2 * W) = Bytes(mem, D + W, D + 2 * W)]_vars
    /\ [](DockOpen =>
             /\ pc # "dock_L47" => Rd32(mem, D) = Addr("dock_L49")
             /\ DockFrame(mem) = Enc(hist.init.regs["edi"]) \o Enc(hist.init.regs["esi"])
                                 \o Enc(hist.init.regs["ebx"]) \o Enc(hist.init.regs["ebp"])
                                 \o Enc(Addr("Stack_dock_ret")))
    /\ [](pc = "dock_L53" =>
             /\ Saved(reg) = hist.init.regs
             /\ reg["esp"] = D + 6 * W
             /\ Rd32(mem, reg["esp"]) = Addr("Stack_dock_ret"))

\* an entry started by restart has returned through dock after a landing, and
\* the argument slot no longer holds what dock pushed
C19_Witness ==
    /\ pc = "dock_L53"
    /\ hist.nRestart + Cardinality(hist.resumedSeeds) > 0
    /\ hist.nLand > 0
    /\ Rd32(mem, D + W) # Rd32(hist.init.mem, hist.init.esp + 2 * W)
    /\ Saved(reg) = hist.init.regs

\* a length the claim allows: whole words, and no less than the four saved
\* registers and the return address
WordsFrom5(n) == n % W = 0 /\ n >= 5 * W

(* C20. Every snapshot captured by suspend under a dock has a length that  *)
(* is a multiple of the word size and at least 20 bytes, at whatever call  *)
(* depth suspend is called: the length suspend has computed, the length it *)
(* passes to its callback and the length of every buffer copied from it.   *)
C20_SnapshotLength ==
    /\ pc \in {"suspend_L127", "suspend_L128"} => WordsFrom5(reg["edi"])
    /\ pc = "suspend_trampoline" => WordsFrom5(Rd32(mem, reg["esp"] + 2 * W))
    /\ \A i \in 1..Len(heap) : WordsFrom5(Len(heap[i].bytes))

\* suspend hands its callback a snapshot of another length than the one
\* captured before it, both of whole words
C20_Witness ==
    /\ pc = "suspend_trampoline"
    /\ Len(heap) = 1
    /\ Rd32(mem, reg["esp"] + 2 * W) # Len(heap[1].bytes)
    /\ WordsFrom5(Rd32(mem, reg["esp"] + 2 * W))

\* the address the dock under the dock recorded
InnerD == hist.inner - 4 * W

\* dock is on its way out: the pops and the ret of asm.rs:49-53
DockReturning == pc \in {"dock_L49", "dock_L50", "dock_L51", "dock_L52", "dock_L53"}

(* C21. dock neither clears nor restores D when it returns: no step of     *)
(* asm.rs:49-53 changes the cell, so when a dock called under another dock *)
(* has returned, D is still the address the inner dock recorded, which     *)
(* lies below the outer dock's address, and stays so until the outer dock  *)
(* has returned too; a suspend called afterwards in the outer context      *)
(* computes its length from the inner address, and gets less than the      *)
(* distance to the outer dock.                                             *)
C21_DockLeftSet ==
    /\ [][DockReturning => STACK_START' = STACK_START]_vars
    /\ [](pc = "N_docked" => /\ D = InnerD
                             /\ D = reg["esp"] - 7 * W
                             /\ D < DockOfRun)
    /\ [](pc \in {"Stack_dock_ret", "done"} => D = InnerD /\ D # DockOfRun)
    /\ [](pc = "suspend_L127" => /\ reg["edi"] = InnerD - reg["esp"]
                                 /\ reg["edi"] < DockOfRun - reg["esp"])

\* a suspend in the outer context has measured a segment that ends at the
\* inner dock's address and is shorter than the five words suspend pushed
C21_Witness ==
    /\ pc = "suspend_L127"
    /\ D = InnerD
    /\ reg["edi"] = D - reg["esp"]
    /\ reg["edi"] >= 0
    /\ reg["edi"] < 5 * W

\* a saved stack taken from the queue or just captured, not yet resumed or sent
Holding == held.data # 0 \/ held.a # 0

\* the dock has returned the unit value and nothing is left queued or held
Finished == pc = "done" /\ out = Unit /\ queue = <<>> /\ ~Holding

\* every seed and every snapshot has been resumed, once, and none dropped
AllResumedOnce ==
    /\ hist.nResume = Cardinality(Seeds) + Len(heap)
    /\ \A i \in Seeds : /\ i \in hist.resumedSeeds
                        /\ boxes[i].cons = 1
                        /\ boxes[i].drops = 0
    /\ hist.nLand = Len(heap)
    /\ \A i \in 1..Len(heap) : heap[i].st = "freed" /\ heap[i].frees = 1
    /\ hist.droppedSeeds = {} /\ hist.droppedBufs = {}

(* C22. The queue-driven scenario terminates: in the run of                *)
(* suspend_and_resume_complex, two seeds that each suspend twice and a     *)
(* pump that resumes the next queued saved stack or restarts with || {}    *)
(* when the queue is empty, the dock eventually returns the unit value to  *)
(* its caller with the queue empty, and stays returned; no saved stack is  *)
(* ever resumed twice or dropped, and when the dock has returned both      *)
(* seeds and all four snapshots have been resumed exactly once.            *)
C22_QueueTerminates ==
    /\ <>[]Finished
    /\ [](/\ hist.herr = "none"
          /\ hist.nResume + Len(queue) + (IF Holding THEN 1 ELSE 0)
                 = Cardinality(Seeds) + Len(heap)
          /\ \A i \in 1..Len(heap) : heap[i].frees <= 1
          /\ \A i \in Seeds : boxes[i].cons <= 1)
    /\ [](pc = "done" => /\ Finished
                         /\ AllResumedOnce
                         /\ Cardinality(Seeds) = 2
                         /\ Len(heap) = 4)

\* the run has ended after six resumes and the one restart of the pump
C22_Witness ==
    /\ Finished
    /\ hist.nResume = 6
    /\ hist.nRestart = 1
    /\ Len(heap) = 4

====
